---- MODULE Spec2Model ----
(***************************************************************************)
(* Model of src/receipts.py: the Receipt entity (validation, identifier,   *)
(* points), the Receipt_Pool store and the module helper functions.        *)
(*                                                                         *)
(* Strings are sequences of one-character strings.  Python ints are        *)
(* unbounded; where a value can exceed TLC's integers (prices parsed by    *)
(* float(), the per-item ceil) it is a natural number held as a sequence   *)
(* of base-1024 limbs, least significant first, without leading zeros.  A  *)
(* Python float is an IEEE-754 double [m, e] standing for m * 2^e.         *)
(***************************************************************************)
EXTENDS Integers, Sequences, FiniteSets, TLC

VARIABLES
    receipts,   \* the Receipt objects constructed so far: object -> [id, points, data]
    adds,       \* history: how often each object was passed to add_receipt (0, 1, 2 = more)
    pool,       \* Receipt_Pool.data: identifier -> Receipt object
    ret,        \* the last completed call, what it returned and, for add_receipt,
                \* as history the id the receipt had at the call
    pc,         \* each thread's position inside add_receipt
    inp,        \* input of the pure-function harnesses
    out         \* their output

vars == <<receipts, adds, pool, ret, pc, inp, out>>

\* ------------------------------------------------------------------ bounds

MaxReceipts == 2      \* Receipt objects constructed in one run
NumIds == 2           \* size of the identifier space uuid4() draws from
MaxRetailerLen == 3   \* longest retailer string of the retailer harness

\* ------------------------------------------------------------- characters

Digit == {"0", "1", "2", "3", "4", "5", "6", "7", "8", "9"}

Letter ==
    {"A", "B", "C", "D", "E", "F", "G", "H", "I", "J", "K", "L", "M",
     "N", "O", "P", "Q", "R", "S", "T", "U", "V", "W", "X", "Y", "Z",
     "a", "b", "c", "d", "e", "f", "g", "h", "i", "j", "k", "l", "m",
     "n", "o", "p", "q", "r", "s", "t", "u", "v", "w", "x", "y", "z"}

\* str.isspace(), the characters str.strip() removes and the regex class \s
Whitespace == {" ", "\t", "\n", "\r", "\f"}

\* the regex class \w
WordChar == Letter \cup Digit \cup {"_"}

DigitVal ==
    [c \in Digit |->
        CASE c = "0" -> 0 [] c = "1" -> 1 [] c = "2" -> 2 [] c = "3" -> 3
          [] c = "4" -> 4 [] c = "5" -> 5 [] c = "6" -> 6 [] c = "7" -> 7
          [] c = "8" -> 8 [] c = "9" -> 9]

\* ---------------------------------------------------------------- strings

RECURSIVE lstrip(_)
lstrip(s) ==
    IF s # <<>> /\ Head(s) \in Whitespace THEN lstrip(Tail(s)) ELSE s

RECURSIVE rstrip(_)
rstrip(s) ==
    IF s # <<>> /\ s[Len(s)] \in Whitespace
    THEN rstrip(SubSeq(s, 1, Len(s) - 1))
    ELSE s

\* str.strip()
strip(s) == rstrip(lstrip(s))

\* str.split(sep) for a one-character separator
RECURSIVE split(_, _)
split(s, sep) ==
    IF \A i \in 1..Len(s) : s[i] # sep
    THEN <<s>>
    ELSE LET k == CHOOSE i \in 1..Len(s) :
                      s[i] = sep /\ \A j \in 1..(i - 1) : s[j] # sep
         IN  <<SubSeq(s, 1, k - 1)>> \o split(SubSeq(s, k + 1, Len(s)), sep)

\* int(s) for a string of decimal digits, surrounding whitespace ignored
RECURSIVE DecValue(_)
DecValue(s) ==
    IF s = <<>> THEN 0
    ELSE 10 * DecValue(SubSeq(s, 1, Len(s) - 1)) + DigitVal[s[Len(s)]]

py_int(s) == DecValue(strip(s))

\* --------------------------------------------------------------- regexes
\* marshmallow's validate.Regexp applies re.match.  Without re.MULTILINE a
\* "$" matches at the end of the string and also just before a newline that
\* is the last character; "." matches any character but a newline.

\* the lengths n such that "$" matches after the first n characters of s
DollarEnds(s) ==
    {Len(s)} \cup
    (IF s # <<>> /\ s[Len(s)] = "\n" THEN {Len(s) - 1} ELSE {})

AllIn(s, lo, hi, class) == \A i \in lo..hi : s[i] \in class

\* ^\S(.*\S)?$
RetailerRegexp(s) ==
    \E n \in DollarEnds(s) :
        /\ n >= 1
        /\ s[1] \notin Whitespace
        /\ \/ n = 1
           \/ /\ s[n] \notin Whitespace
              /\ \A i \in 2..(n - 1) : s[i] # "\n"

\* ^\d{4}-\d{2}-\d{2}$
PurchaseDateRegexp(s) ==
    \E n \in DollarEnds(s) :
        /\ n = 10
        /\ AllIn(s, 1, 4, Digit) /\ s[5] = "-"
        /\ AllIn(s, 6, 7, Digit) /\ s[8] = "-"
        /\ AllIn(s, 9, 10, Digit)

\* ([01]?[0-9]|2[0-3]) against the whole of h
HourRegexp(h) ==
    \/ Len(h) = 1 /\ h[1] \in Digit
    \/ Len(h) = 2 /\ h[1] \in {"0", "1"} /\ h[2] \in Digit
    \/ Len(h) = 2 /\ h[1] = "2" /\ h[2] \in {"0", "1", "2", "3"}

\* ^([01]?[0-9]|2[0-3]):[0-5][0-9]$
PurchaseTimeRegexp(s) ==
    \E n \in DollarEnds(s) :
        /\ n >= 4
        /\ HourRegexp(SubSeq(s, 1, n - 3))
        /\ s[n - 2] = ":"
        /\ s[n - 1] \in {"0", "1", "2", "3", "4", "5"}
        /\ s[n] \in Digit

\* ^[\w\s\-]+$
ShortDescriptionRegexp(s) ==
    \E n \in DollarEnds(s) :
        n >= 1 /\ AllIn(s, 1, n, WordChar \cup Whitespace \cup {"-"})

\* ^\d+\.\d{2}$
PriceRegexp(s) ==
    \E n \in DollarEnds(s) :
        /\ n >= 4
        /\ AllIn(s, 1, n - 3, Digit)
        /\ s[n - 2] = "."
        /\ AllIn(s, n - 1, n, Digit)

\* ------------------------------------- unbounded naturals (limb lists)

Min(a, b) == IF a < b THEN a ELSE b
Max(a, b) == IF a > b THEN a ELSE b

LimbBits == 10
Base == 2 ^ LimbBits

\* a without its leading (most significant, last) zero limbs
RECURSIVE BNorm(_)
BNorm(a) ==
    IF a # <<>> /\ a[Len(a)] = 0 THEN BNorm(SubSeq(a, 1, Len(a) - 1)) ELSE a

\* a * k + c, for 1 <= k <= Base and small c
RECURSIVE BMulAddSmall(_, _, _)
BMulAddSmall(a, k, c) ==
    IF a = <<>>
    THEN IF c = 0 THEN <<>> ELSE <<c % Base>> \o BMulAddSmall(<<>>, k, c \div Base)
    ELSE LET s == Head(a) * k + c
         IN  <<s % Base>> \o BMulAddSmall(Tail(a), k, s \div Base)

BSucc(a) == BMulAddSmall(a, 1, 1)

\* a + b + c, c a carry
RECURSIVE BAddCarry(_, _, _)
BAddCarry(a, b, c) ==
    IF a = <<>> THEN BMulAddSmall(b, 1, c)
    ELSE IF b = <<>> THEN BMulAddSmall(a, 1, c)
    ELSE LET s == Head(a) + Head(b) + c
         IN  <<s % Base>> \o BAddCarry(Tail(a), Tail(b), s \div Base)

BAdd(a, b) == BAddCarry(a, b, 0)

\* a * Base^n
BShlLimbs(a, n) == IF a = <<>> THEN <<>> ELSE [i \in 1..n |-> 0] \o a

\* a * 2^k
BShl(a, k) ==
    BShlLimbs(BMulAddSmall(a, 2 ^ (k % LimbBits), 0), k \div LimbBits)

\* long division of a by d <= Base from the most significant limb down:
\* [q |-> floor(a / d), r |-> a mod d]; i limbs of a are still to be read
RECURSIVE BDivFrom(_, _, _, _)
BDivFrom(a, d, i, r) ==
    IF i = 0 THEN [q |-> <<>>, r |-> r]
    ELSE LET x == r * Base + a[i]
             low == BDivFrom(a, d, i - 1, x % d)
         IN  [q |-> Append(low.q, x \div d), r |-> low.r]

BDivSmall(a, d) ==
    LET res == BDivFrom(a, d, Len(a), 0)
    IN  [q |-> BNorm(res.q), r |-> res.r]

\* floor(a / 2^k)
BShr(a, k) ==
    BDivSmall(SubSeq(a, (k \div LimbBits) + 1, Len(a)), 2 ^ (k % LimbBits)).q

\* whether a mod 2^k is not 0
BLowBits(a, k) ==
    \/ \E i \in 1..Min(k \div LimbBits, Len(a)) : a[i] # 0
    \/ /\ (k \div LimbBits) + 1 <= Len(a)
       /\ a[(k \div LimbBits) + 1] % (2 ^ (k % LimbBits)) # 0

\* bit k of a, the least significant bit being bit 1
BBit(a, k) ==
    IF ((k - 1) \div LimbBits) + 1 > Len(a) THEN 0
    ELSE (a[((k - 1) \div LimbBits) + 1] \div (2 ^ ((k - 1) % LimbBits))) % 2

\* number of bits of a limb
RECURSIVE LimbLen(_)
LimbLen(x) == IF x = 0 THEN 0 ELSE 1 + LimbLen(x \div 2)

\* number of bits of a
BLen(a) == IF a = <<>> THEN 0 ELSE LimbBits * (Len(a) - 1) + LimbLen(a[Len(a)])

\* a * b, adding a shifted multiple of a for every limb of b
RECURSIVE BMulFrom(_, _, _)
BMulFrom(a, b, i) ==
    IF i > Len(b) THEN <<>>
    ELSE LET rest == BMulFrom(a, b, i + 1)
         IN  IF b[i] = 0 THEN rest
             ELSE BAdd(BShlLimbs(BMulAddSmall(a, b[i], 0), i - 1), rest)

BMul(a, b) == BMulFrom(a, b, 1)

\* the natural number a string of decimal digits denotes
RECURSIVE BFromDec(_)
BFromDec(s) ==
    IF s = <<>> THEN <<>>
    ELSE BMulAddSmall(BFromDec(SubSeq(s, 1, Len(s) - 1)), 10, DigitVal[s[Len(s)]])

\* a as an integer of the model (a below 2^31)
RECURSIVE BToInt(_)
BToInt(a) == IF a = <<>> THEN 0 ELSE Head(a) + Base * BToInt(Tail(a))

\* ---------------------------------------------------- IEEE-754 doubles

\* number of trailing zero bits of a (a # 0)
RECURSIVE BTrailingZeros(_)
BTrailingZeros(a) ==
    IF Head(a) = 0 THEN LimbBits + BTrailingZeros(Tail(a))
    ELSE CHOOSE z \in 0..(LimbBits - 1) :
             Head(a) % (2 ^ z) = 0 /\ Head(a) % (2 ^ (z + 1)) # 0

\* the double m * 2^e with m odd (or zero)
FNorm(m, e) ==
    IF m = <<>> THEN [m |-> <<>>, e |-> 0]
    ELSE LET z == BTrailingZeros(m) IN [m |-> BShr(m, z), e |-> e + z]

\* The double nearest to n * 2^e (+ a fraction of the last unit of n when
\* sticky, in which case n has at least 55 bits): round to nearest, ties to
\* even, on a 53-bit significand.  The exponent range is not modelled.
Round53(n, sticky, e) ==
    IF BLen(n) <= 53 THEN FNorm(n, e)
    ELSE LET d == BLen(n) - 53
             hi == BShr(n, d)
             half == BBit(n, d) = 1
             rest == BLowBits(n, d - 1) \/ sticky
             up == half /\ (rest \/ BBit(hi, 1) = 1)
         IN  FNorm(IF up THEN BSucc(hi) ELSE hi, e + d)

\* 10^f for the fraction lengths that occur
Pow10(f) == CASE f = 0 -> 1 [] f = 1 -> 10 [] f = 2 -> 100

\* float(s) for s of the form digits "." digits (at most two), surrounding
\* whitespace ignored: the correctly rounded quotient digits / 10^f
py_float(s) ==
    LET parts == split(strip(s), ".")
        f == Len(parts[2])
        c == BFromDec(parts[1] \o parts[2])
        k == Max(0, 62 - BLen(c))
        qr == BDivSmall(BShl(c, k), Pow10(f))
    IN  Round53(qr.q, qr.r # 0, 0 - k)

\* x * y on doubles
FMul(x, y) == Round53(BMul(x.m, y.m), FALSE, x.e + y.e)

\* math.ceil(x), x >= 0
py_ceil(x) ==
    IF x.e >= 0 THEN BShl(x.m, x.e)
    ELSE IF BLowBits(x.m, 0 - x.e) THEN BSucc(BShr(x.m, 0 - x.e))
    ELSE BShr(x.m, 0 - x.e)

\* x % 0.25 == 0, x >= 0: the remainder of doubles is exact, so it is zero
\* exactly when x = m * 2^e (m odd) is a multiple of 2^-2
FIsMultipleOfQuarter(x) == x.m = <<>> \/ x.e >= 0 - 2

\* the literal 0.2 of the source
Float02 == py_float(<<"0", ".", "2">>)

\* ------------------------------------------------------ module helpers

has_zero_cents(price_str) == split(price_str, ".")[2] = <<"0", "0">>

\* str.isalnum() of one character
isalnum(c) == c \in Letter \cup Digit

count_alphanumeric(s) == Cardinality({i \in 1..Len(s) : isalnum(s[i])})

get_day(date_str) == py_int(split(date_str, "-")[3])

split_time(time_str) ==
    LET time_list == split(time_str, ":")
    IN  <<py_int(time_list[1]), py_int(time_list[2])>>

\* ------------------------------------------------------------ schemas

ItemFields == {"shortDescription", "price"}
ReceiptFields == {"retailer", "purchaseDate", "purchaseTime", "items", "total"}

\* ItemSchema: the fields of one item that fail (missing, or not matching)
ItemSchemaErrors(item) ==
    {f \in ItemFields :
        \/ f \notin DOMAIN item
        \/ f = "shortDescription" /\ ~ShortDescriptionRegexp(item[f])
        \/ f = "price" /\ ~PriceRegexp(item[f])}

\* ReceiptSchema: the fields of the receipt that fail
ReceiptSchemaErrors(receipt) ==
    {f \in ReceiptFields :
        \/ f \notin DOMAIN receipt
        \/ f = "retailer" /\ ~RetailerRegexp(receipt[f])
        \/ f = "purchaseDate" /\ ~PurchaseDateRegexp(receipt[f])
        \/ f = "purchaseTime" /\ ~PurchaseTimeRegexp(receipt[f])
        \/ f = "items" /\
             \/ Len(receipt[f]) < 1
             \/ \E i \in 1..Len(receipt[f]) : ItemSchemaErrors(receipt[f][i]) # {}
        \/ f = "total" /\ ~PriceRegexp(receipt[f])}

\* Receipt.validate_receipt: TRUE when it returns, FALSE when it raises
\* ValidationError
validate_receipt(receipt) == ReceiptSchemaErrors(receipt) = {}

\* ------------------------------------------------------------- points

\* the contribution of one item (a limb list)
ItemPoints(item) ==
    IF Len(strip(item.shortDescription)) % 3 = 0
    THEN py_ceil(FMul(py_float(item.price), Float02))
    ELSE <<>>

RECURSIVE ItemsPoints(_)
ItemsPoints(items) ==
    IF items = <<>> THEN <<>>
    ELSE BAdd(ItemPoints(Head(items)), ItemsPoints(Tail(items)))

\* the contribution of the purchase time
TimeRuleInclusive(hour, minute) ==
    IF hour = 15 \/ hour = 14 THEN 10 ELSE 0

TimeRule(hour, minute) ==
    IF hour = 15 \/ (hour = 14 /\ minute > 0) THEN 10 ELSE 0

TimePoints(purchaseTime) ==
    LET hm == split_time(purchaseTime) IN TimeRule(hm[1], hm[2])

\* Receipt.calculate_points (the sum fits the model's integers for the
\* receipts of Records)
calculate_points(receipt) ==
    count_alphanumeric(receipt.retailer)
    + (IF has_zero_cents(receipt.total) THEN 50 ELSE 0)
    + (IF FIsMultipleOfQuarter(py_float(receipt.total)) THEN 25 ELSE 0)
    + (Len(receipt.items) \div 2) * 5
    + BToInt(ItemsPoints(receipt.items))
    + (IF get_day(receipt.purchaseDate) % 2 = 1 THEN 6 ELSE 0)
    + TimePoints(receipt.purchaseTime)

\* ------------------------------------------------------ receipt records

TargetReceipt ==
    [retailer |-> <<"T", "a", "r", "g", "e", "t">>,
     purchaseDate |-> <<"2", "0", "2", "2", "-", "0", "1", "-", "0", "1">>,
     purchaseTime |-> <<"1", "3", ":", "0", "1">>,
     items |->
        <<[shortDescription |-> <<"M", "o", "u", "n", "t", "a", "i", "n", " ", "D", "e", "w", " ", "1", "2", "P", "K">>,
           price |-> <<"6", ".", "4", "9">>],
          [shortDescription |-> <<"E", "m", "i", "l", "s", " ", "C", "h", "e", "e", "s", "e", " ", "P", "i", "z", "z", "a">>,
           price |-> <<"1", "2", ".", "2", "5">>],
          [shortDescription |-> <<"K", "n", "o", "r", "r", " ", "C", "r", "e", "a", "m", "y", " ", "C", "h", "i", "c", "k", "e", "n">>,
           price |-> <<"1", ".", "2", "6">>],
          [shortDescription |-> <<"D", "o", "r", "i", "t", "o", "s", " ", "N", "a", "c", "h", "o", " ", "C", "h", "e", "e", "s", "e">>,
           price |-> <<"3", ".", "3", "5">>],
          [shortDescription |-> <<" ", " ", " ", "K", "l", "a", "r", "b", "r", "u", "n", "n", " ", "1", "2", "-", "P", "K", " ", "1", "2", " ", "F", "L", " ", "O", "Z", " ", " ">>,
           price |-> <<"1", "2", ".", "0", "0">>]>>,
     total |-> <<"3", "5", ".", "3", "5">>]

CornerMarketReceipt ==
    [retailer |-> <<"M", "&", "M", " ", "C", "o", "r", "n", "e", "r", " ", "M", "a", "r", "k", "e", "t">>,
     purchaseDate |-> <<"2", "0", "2", "2", "-", "0", "3", "-", "2", "0">>,
     purchaseTime |-> <<"1", "4", ":", "3", "3">>,
     items |->
        <<[shortDescription |-> <<"G", "a", "t", "o", "r", "a", "d", "e">>,
           price |-> <<"2", ".", "2", "5">>],
          [shortDescription |-> <<"G", "a", "t", "o", "r", "a", "d", "e">>,
           price |-> <<"2", ".", "2", "5">>],
          [shortDescription |-> <<"G", "a", "t", "o", "r", "a", "d", "e">>,
           price |-> <<"2", ".", "2", "5">>],
          [shortDescription |-> <<"G", "a", "t", "o", "r", "a", "d", "e">>,
           price |-> <<"2", ".", "2", "5">>]>>,
     total |-> <<"9", ".", "0", "0">>]

\* no items: rejected by Length(min=1)
NoItemsReceipt == [CornerMarketReceipt EXCEPT !.items = <<>>]

\* a price with one fractional digit: rejected by the price pattern
BadPriceReceipt ==
    [TargetReceipt EXCEPT !.items =
        <<[shortDescription |-> <<"P", "e", "p", "s", "i">>,
           price |-> <<"3", ".", "5">>]>>]

\* The raw records (Python dicts) a caller hands to Receipt(...).  A Receipt
\* keeps a reference to its dict, so the model names the dicts and a
\* Receipt's data is the name.
Raw ==
    [target |-> TargetReceipt,
     corner_market |-> CornerMarketReceipt,
     no_items |-> NoItemsReceipt,
     bad_price |-> BadPriceReceipt]

Records == DOMAIN Raw

\* --------------------------------------------------------------- state

\* the identifiers uuid4() can return
Ids == 1..NumIds

\* Python's None, where a Receipt object (a positive index into receipts)
\* is the alternative
None == 0

\* the threads of the concurrent embedding
Threads == {1, 2}

\* dict operations
EmptyDict == [k \in {} |-> None]
dict_get(d, k, default) == IF k \in DOMAIN d THEN d[k] ELSE default
dict_set(d, k, v) == [x \in DOMAIN d \cup {k} |-> IF x = k THEN v ELSE d[x]]
dict_del(d, k) == [x \in DOMAIN d \ {k} |-> d[x]]

\* bool(v) of None or of a Receipt: the class defines neither __bool__ nor
\* __len__, so every Receipt object is true
Truthy(v) == v # None

Objects == 1..Len(receipts)

\* the Receipt objects the pool holds
Stored == {pool[k] : k \in DOMAIN pool}

\* a thread's position: where it is in add_receipt, the object it was
\* called with and, as history, the keys and the object's id at the call
IdlePc ==
    [t \in Threads |->
        [at |-> "idle", obj |-> None, pre |-> {}, first |-> None]]

\* the sequential program is inside no call and has not hung in one
Running == ret.op # "hang" /\ \A t \in Threads : pc[t].at = "idle"

InitPool ==
    /\ receipts = <<>>
    /\ adds = <<>>
    /\ pool = EmptyDict
    /\ ret = [op |-> "init", arg |-> None, val |-> None]
    /\ pc = IdlePc

NotDone == [done |-> FALSE]

Init == InitPool /\ inp = None /\ out = NotDone

\* ------------------------------------------------------------- Receipt

\* Receipt.__init__(receipt), newid being what uuid4() returns: either
\* ValidationError is raised and no object exists, or the object
Receipt_init_no_points(receipt, newid) ==
    IF ~validate_receipt(receipt)
    THEN [raised |-> "ValidationError"]
    ELSE [raised |-> "",
          self |-> [id |-> newid, points |-> 0, data |-> receipt]]

Receipt_init(receipt, newid) ==
    IF ~validate_receipt(receipt)
    THEN [raised |-> "ValidationError"]
    ELSE [raised |-> "",
          self |-> [id |-> newid,
                    points |-> calculate_points(receipt),
                    data |-> receipt]]

\* validation and points are pure functions of the dict: the outcome of
\* Receipt.__init__ on each dict of Raw, computed once (the id is drawn at
\* each construction)
InitOf == [n \in Records |-> Receipt_init(Raw[n], None)]

\* the caller constructs Receipt(Raw[receipt]); the object keeps the
\* reference to the dict
NewReceipt(receipt, newid) ==
    /\ ret.op # "hang"
    /\ Len(receipts) < MaxReceipts
    /\ IF InitOf[receipt].raised # ""
       THEN /\ ret' = [op |-> "Receipt", arg |-> None,
                       val |-> InitOf[receipt].raised]
            /\ UNCHANGED <<receipts, adds>>
       ELSE /\ receipts' =
                   Append(receipts,
                          [id |-> newid,
                           points |-> InitOf[receipt].self.points,
                           data |-> receipt])
            /\ adds' = Append(adds, 0)
            /\ ret' = [op |-> "Receipt", arg |-> Len(receipts) + 1, val |-> ""]
    /\ UNCHANGED <<pool, pc, inp, out>>

\* -------------------------------------------------------- Receipt_Pool

Bump(n) == IF n < 2 THEN n + 1 ELSE 2

\* add_receipt(receipts[o]) as one call.  When the id is a key the loop
\* draws identifiers until one is not a key: newid is the last one drawn.
AddReceiptNoCheck(o, newid) ==
    /\ Running
    /\ o \in Objects
    /\ newid = receipts[o].id
    /\ pool' = dict_set(pool, receipts[o].id, o)
    /\ adds' = [adds EXCEPT ![o] = Bump(@)]
    /\ ret' = [op |-> "add_receipt", arg |-> o, val |-> None,
               at_call |-> receipts[o].id]
    /\ UNCHANGED <<receipts, pc, inp, out>>

AddReceiptStaleKey(o, newid) ==
    /\ Running
    /\ o \in Objects
    /\ IF receipts[o].id \in DOMAIN pool
       THEN newid \notin DOMAIN pool
       ELSE newid = receipts[o].id
    /\ receipts' = [receipts EXCEPT ![o].id = newid]
    /\ pool' = dict_set(pool, receipts[o].id, o)
    /\ adds' = [adds EXCEPT ![o] = Bump(@)]
    /\ ret' = [op |-> "add_receipt", arg |-> o, val |-> None,
               at_call |-> receipts[o].id]
    /\ UNCHANGED <<pc, inp, out>>

AddReceipt(o, newid) ==
    /\ Running
    /\ o \in Objects
    /\ IF receipts[o].id \in DOMAIN pool
       THEN newid \notin DOMAIN pool
       ELSE newid = receipts[o].id
    /\ receipts' = [receipts EXCEPT ![o].id = newid]
    /\ pool' = dict_set(pool, newid, o)
    /\ adds' = [adds EXCEPT ![o] = Bump(@)]
    /\ ret' = [op |-> "add_receipt", arg |-> o, val |-> None,
               at_call |-> receipts[o].id]
    /\ UNCHANGED <<pc, inp, out>>

\* add_receipt when every identifier is a key: the loop never ends, and
\* the call never returns
AddReceiptHangs(o) ==
    /\ Running
    /\ o \in Objects
    /\ receipts[o].id \in DOMAIN pool
    /\ DOMAIN pool = Ids
    /\ ret' = [op |-> "hang", arg |-> o, val |-> None]
    /\ UNCHANGED <<receipts, adds, pool, pc, inp, out>>

GetReceipt(receipt_id) ==
    /\ Running
    /\ ret' = [op |-> "get_receipt", arg |-> receipt_id,
               val |-> dict_get(pool, receipt_id, None)]
    /\ UNCHANGED <<receipts, adds, pool, pc, inp, out>>

GetAllReceipts ==
    /\ Running
    /\ ret' = [op |-> "get_all_receipts", arg |-> None, val |-> pool]
    /\ UNCHANGED <<receipts, adds, pool, pc, inp, out>>

DeleteReceiptAlwaysTrue(receipt_id) ==
    /\ Running
    /\ pool' = dict_del(pool, receipt_id)
    /\ ret' = [op |-> "delete_receipt", arg |-> receipt_id, val |-> TRUE]
    /\ UNCHANGED <<receipts, adds, pc, inp, out>>

DeleteReceipt(receipt_id) ==
    /\ Running
    /\ IF Truthy(dict_get(pool, receipt_id, None))
       THEN /\ pool' = dict_del(pool, receipt_id)
            /\ ret' = [op |-> "delete_receipt", arg |-> receipt_id, val |-> TRUE]
       ELSE /\ pool' = pool
            /\ ret' = [op |-> "delete_receipt", arg |-> receipt_id, val |-> FALSE]
    /\ UNCHANGED <<receipts, adds, pc, inp, out>>

\* ------------------------------------- add_receipt, statement by statement

\* a thread calls add_receipt(receipts[o])
AddCall(t, o) ==
    /\ ret.op # "hang"
    /\ pc[t].at = "idle"
    /\ o \in Objects
    /\ pc' = [pc EXCEPT ![t] = [at |-> "while", obj |-> o,
                                pre |-> DOMAIN pool, first |-> receipts[o].id]]
    /\ UNCHANGED <<receipts, adds, pool, ret, inp, out>>

\* the loop test holds: the body draws a new id
AddWhileKeepsId(t, newid) ==
    /\ pc[t].at = "while"
    /\ receipts[pc[t].obj].id \in DOMAIN pool
    /\ UNCHANGED <<receipts, adds, pool, ret, pc, inp, out>>

AddWhileRegenerate(t, newid) ==
    /\ pc[t].at = "while"
    /\ receipts[pc[t].obj].id \in DOMAIN pool
    /\ receipts' = [receipts EXCEPT ![pc[t].obj].id = newid]
    /\ UNCHANGED <<adds, pool, ret, pc, inp, out>>

\* the loop test fails: control reaches the insertion
AddWhileExit(t) ==
    /\ pc[t].at = "while"
    /\ receipts[pc[t].obj].id \notin DOMAIN pool
    /\ pc' = [pc EXCEPT ![t].at = "insert"]
    /\ UNCHANGED <<receipts, adds, pool, ret, inp, out>>

\* self.data[receipt.id] = receipt, and the call returns
AddInsert(t) ==
    /\ pc[t].at = "insert"
    /\ pool' = dict_set(pool, receipts[pc[t].obj].id, pc[t].obj)
    /\ adds' = [adds EXCEPT ![pc[t].obj] = Bump(@)]
    /\ ret' = [op |-> "add_receipt", arg |-> pc[t].obj, val |-> None,
               at_call |-> pc[t].first]
    /\ pc' = [pc EXCEPT ![t].at = "idle"]
    /\ UNCHANGED <<receipts, inp, out>>

\* ------------------------------------------------------- specifications

\* the sequential program: the caller's calls, one at a time
Next ==
    \/ \E receipt \in Records, newid \in Ids : Running /\ NewReceipt(receipt, newid)
    \/ \E o \in Objects, newid \in Ids : AddReceipt(o, newid)
    \/ \E o \in Objects : AddReceiptHangs(o)
    \/ \E receipt_id \in Ids : GetReceipt(receipt_id)
    \/ GetAllReceipts
    \/ \E receipt_id \in Ids : DeleteReceipt(receipt_id)

Spec == Init /\ [][Next]_vars

\* one caller, add_receipt taken statement by statement, the identifier
\* generator fair: every identifier keeps being drawn
NextLive ==
    \/ \E receipt \in Records, newid \in Ids : Running /\ NewReceipt(receipt, newid)
    \/ \E o \in Objects : Running /\ AddCall(1, o)
    \/ \E newid \in Ids : AddWhileRegenerate(1, newid)
    \/ AddWhileExit(1)
    \/ AddInsert(1)

SpecLive ==
    /\ Init
    /\ [][NextLive]_vars
    /\ \A newid \in Ids : WF_vars(AddWhileRegenerate(1, newid))
    /\ WF_vars(AddWhileExit(1))
    /\ WF_vars(AddInsert(1))

\* two threads of a concurrently accessed service call add_receipt on the
\* same pool; the source takes no lock, so their statements interleave
NextConc ==
    \/ \E receipt \in Records, newid \in Ids : NewReceipt(receipt, newid)
    \/ \E t \in Threads, o \in Objects : AddCall(t, o)
    \/ \E t \in Threads, newid \in Ids : AddWhileRegenerate(t, newid)
    \/ \E t \in Threads : AddWhileExit(t)
    \/ \E t \in Threads : AddInsert(t)

SpecConc == Init /\ [][NextConc]_vars

\* --------------------------------------------- pure-function harnesses
\* Each draws its input in the initial state and applies the code to it once.

HourStrings ==
    {<<a>> : a \in Digit} \cup {<<a, b>> : a \in {"0", "1", "2"}, b \in Digit}

MinuteStrings == {<<a, b>> : a \in {"0", "1", "2", "3", "4", "5", "6"}, b \in Digit}

\* purchase times h:mm and hh:mm, valid or not, with and without a final newline
TimeInputs ==
    {h \o <<":">> \o m \o e :
        h \in HourStrings, m \in MinuteStrings, e \in {<<>>, <<"\n">>}}

\* the schema's check of purchaseTime, then the time rule of calculate_points
CallTimePoints ==
    /\ ~out.done
    /\ out' = IF PurchaseTimeRegexp(inp)
              THEN [done |-> TRUE, valid |-> TRUE, points |-> TimePoints(inp)]
              ELSE [done |-> TRUE, valid |-> FALSE]
    /\ UNCHANGED <<receipts, adds, pool, ret, pc, inp>>

InitTime == InitPool /\ inp \in TimeInputs /\ out = NotDone

SpecTime == InitTime /\ [][CallTimePoints]_vars

ItemDescriptions ==
    {<<" ", " ", " ">>,
     <<"E", "m", "i", "l", "s", " ", "C", "h", "e", "e", "s", "e", " ", "P", "i", "z", "z", "a">>,
     <<" ", " ", " ", "K", "l", "a", "r", "b", "r", "u", "n", "n", " ", "1", "2", "-", "P", "K", " ", "1", "2", " ", "F", "L", " ", "O", "Z", " ", " ">>,
     <<"G", "a", "t", "o", "r", "a", "d", "e">>,
     <<"M", "o", "u", "n", "t", "a", "i", "n", " ", "D", "e", "w", " ", "1", "2", "P", "K">>,
     <<"a", "b", "c", "\n">>,
     <<"a", ".", "b">>,
     <<>>,
     <<" ", "a", "b", " ", " ">>}

ItemPrices ==
    {<<"1", "5", ".", "0", "0">>,
     <<"1", "2", ".", "2", "5">>,
     <<"1", "2", ".", "0", "0">>,
     <<"6", ".", "4", "9">>,
     <<"0", ".", "0", "0">>,
     <<"0", ".", "0", "1">>,
     <<"4", ".", "9", "9">>,
     <<"5", ".", "0", "0">>,
     <<"5", ".", "0", "1">>,
     <<"2", ".", "2", "5">>,
     <<"1", "2", ".", "2", "5", "\n">>,
     <<"3", ".", "5">>,
     <<"9", "9", "9", "9", "9", ".", "9", "9">>,
     <<"2", "0", "0", "0", "0", "0", "0", "0", "0", "0", "0", "0", "0", "0", "0", ".", "0", "1">>}

ItemInputs ==
    {[shortDescription |-> d, price |-> p] : d \in ItemDescriptions, p \in ItemPrices}

\* ItemSchema's check of one item, then its contribution in calculate_points
CallItemPoints ==
    /\ ~out.done
    /\ out' = IF ItemSchemaErrors(inp) = {}
              THEN [done |-> TRUE, valid |-> TRUE, points |-> ItemPoints(inp)]
              ELSE [done |-> TRUE, valid |-> FALSE]
    /\ UNCHANGED <<receipts, adds, pool, ret, pc, inp>>

InitItem == InitPool /\ inp \in ItemInputs /\ out = NotDone

SpecItem == InitItem /\ [][CallItemPoints]_vars

RetailerAlphabet == {"A", "&", " ", "\n"}

RECURSIVE StringsUpTo(_, _)
StringsUpTo(alphabet, n) ==
    IF n = 0 THEN {<<>>}
    ELSE LET shorter == StringsUpTo(alphabet, n - 1)
         IN  shorter \cup {Append(x, c) : x \in shorter, c \in alphabet}

RetailerInputs == StringsUpTo(RetailerAlphabet, MaxRetailerLen)

\* Receipt(record), the record being the Target receipt with retailer inp
CallReceiptWithRetailer ==
    /\ ~out.done
    /\ out' = [done |-> TRUE,
               result |-> Receipt_init([TargetReceipt EXCEPT !.retailer = inp], 1)]
    /\ UNCHANGED <<receipts, adds, pool, ret, pc, inp>>

InitRetailer == InitPool /\ inp \in RetailerInputs /\ out = NotDone

SpecRetailer == InitRetailer /\ [][CallReceiptWithRetailer]_vars

\* -------------------------------------------------------------- claims

\* calculate_points on the valid dicts of Raw, computed once
PointsOf ==
    [n \in {m \in Records : validate_receipt(Raw[m])} |-> calculate_points(Raw[n])]

\* C1: as long as every add_receipt was called on a Receipt object not
\* passed to add_receipt before, no two distinct stored Receipts have the
\* same id and every stored receipt is the one get_receipt returns for its
\* id; and no add_receipt overwrites an entry: every entry the pool had is
\* kept as it was, the pool has one more key and no other receipt's id
\* changes.
UniqueIdsState ==
    (\A o \in Objects : adds[o] <= 1) =>
        /\ \A o1 \in Stored, o2 \in Stored :
               o1 # o2 => receipts[o1].id # receipts[o2].id
        /\ \A o \in Stored : dict_get(pool, receipts[o].id, None) = o

AddNeverOverwrites ==
    ret'.op = "add_receipt" =>
        /\ \A k \in DOMAIN pool : k \in DOMAIN pool' /\ pool'[k] = pool[k]
        /\ Cardinality(DOMAIN pool') = Cardinality(DOMAIN pool) + 1
        /\ \A o \in Objects : o # ret'.arg => receipts'[o].id = receipts[o].id

CollidingAddsKeepBoth == []UniqueIdsState /\ [][AddNeverOverwrites]_vars

\* two receipts, each added once, the second one's generated id having
\* collided with a key, are both stored
TwoCollidingReceiptsStored ==
    /\ ret.op = "add_receipt"
    /\ ret.at_call # receipts[ret.arg].id
    /\ Cardinality(Stored) = 2
    /\ \A o \in Objects : adds[o] = 1

\* C2: after add_receipt(r) the pool maps r's id to r, whose data and points
\* are those r had before the call; get_receipt returns the entry for its
\* argument, None when the argument is no key, and changes nothing.
RoundTripStep ==
    /\ ret'.op = "add_receipt" =>
           /\ receipts'[ret'.arg].id \in DOMAIN pool'
           /\ pool'[receipts'[ret'.arg].id] = ret'.arg
           /\ receipts'[ret'.arg].data = receipts[ret'.arg].data
           /\ receipts'[ret'.arg].points = receipts[ret'.arg].points
    /\ ret'.op = "get_receipt" =>
           /\ ret'.val = (IF ret'.arg \in DOMAIN pool THEN pool[ret'.arg] ELSE None)
           /\ pool' = pool
           /\ receipts' = receipts

RoundTrip == [][RoundTripStep]_vars

\* an add_receipt on a pool that held the receipt's initial id has returned
AddedOverHeldId ==
    /\ ret.op = "add_receipt"
    /\ ret.at_call \in DOMAIN pool
    /\ ret.at_call # receipts[ret.arg].id
    /\ dict_get(pool, receipts[ret.arg].id, None) = ret.arg

\* C3: delete_receipt(id) returns True exactly when id was a key; then the
\* pool is the old one without id (so get_receipt(id) is None and a second
\* delete_receipt(id) returns False); otherwise the pool is unchanged.
DeleteStep ==
    ret'.op = "delete_receipt" =>
        /\ ret'.val = (ret'.arg \in DOMAIN pool)
        /\ ret'.val =>
               /\ DOMAIN pool' = DOMAIN pool \ {ret'.arg}
               /\ \A k \in DOMAIN pool' : pool'[k] = pool[k]
        /\ ~ret'.val => pool' = pool
        /\ receipts' = receipts
        /\ (ret.op = "delete_receipt" /\ ret.val /\ ret.arg = ret'.arg) => ~ret'.val

DeleteReportsPresence ==
    /\ [](ret.op = "delete_receipt" /\ ret.val => ret.arg \notin DOMAIN pool)
    /\ [][DeleteStep]_vars

\* a delete_receipt has returned True and left another entry in the pool
DeletedOneOfTwo ==
    ret.op = "delete_receipt" /\ ret.val /\ DOMAIN pool # {}

\* C4: every stored Receipt's points is a natural number equal to
\* calculate_points of its data (28 and 109 for the two example receipts),
\* and no step changes the points or the data of a Receipt.
StoredPointsMatch ==
    \A k \in DOMAIN pool :
        LET r == receipts[pool[k]]
        IN  /\ r.points \in Nat
            /\ r.points = PointsOf[r.data]
            /\ r.data = "target" => r.points = 28
            /\ r.data = "corner_market" => r.points = 109

PointsAndDataKept ==
    \A o \in Objects :
        /\ receipts'[o].points = receipts[o].points
        /\ receipts'[o].data = receipts[o].data

PointsFixedAtCreation == []StoredPointsMatch /\ [][PointsAndDataKept]_vars

\* both example receipts are stored, the pool having been read
BothExamplesStored ==
    /\ ret.op = "get_all_receipts"
    /\ \E k1 \in DOMAIN pool, k2 \in DOMAIN pool :
           /\ receipts[pool[k1]].points = 28
           /\ receipts[pool[k2]].points = 109

\* the time of day a purchaseTime string denotes, in minutes: the digits
\* before the colon and the two digits after it
MinuteOfDay(s) ==
    LET k == CHOOSE i \in 1..Len(s) : s[i] = ":"
    IN  60 * DecValue(SubSeq(s, 1, k - 1)) + DecValue(SubSeq(s, k + 1, k + 2))

\* C5: for every purchaseTime the schema accepts, the time rule adds 10
\* exactly when the time is strictly between 14:00 and 16:00 and 0 otherwise;
\* 14:00 gives 0, 14:01 gives 10, 15:59 gives 10 and 16:00 gives 0.
TimeWindow ==
    /\ out.done /\ out.valid =>
           out.points =
               (IF 14 * 60 < MinuteOfDay(inp) /\ MinuteOfDay(inp) < 16 * 60
                THEN 10 ELSE 0)
    /\ out.done /\ inp = <<"1", "4", ":", "0", "0">> => out.valid /\ out.points = 0
    /\ out.done /\ inp = <<"1", "4", ":", "0", "1">> => out.valid /\ out.points = 10
    /\ out.done /\ inp = <<"1", "5", ":", "5", "9">> => out.valid /\ out.points = 10
    /\ out.done /\ inp = <<"1", "6", ":", "0", "0">> => out.valid /\ out.points = 0

\* 14:01 has been scored
ScoredJustAfterTwo ==
    out.done /\ inp = <<"1", "4", ":", "0", "1">> /\ out.valid /\ out.points = 10

\* ceil(price * 0.2) on the exact decimal value of a price string: the
\* price in cents over 500, rounded up
CeilFifth(price_str) ==
    LET parts == split(strip(price_str), ".")
        qr == BDivSmall(BFromDec(parts[1] \o parts[2]), 500)
    IN  IF qr.r = 0 THEN qr.q ELSE BSucc(qr.q)

\* C6: every item the schema accepts contributes ceil(price * 0.2), price
\* being the exact decimal value of its price string, when the length of its
\* stripped shortDescription is a multiple of 3, and 0 otherwise.
ItemPointsExact ==
    out.done /\ out.valid =>
        out.points =
            (IF Len(strip(inp.shortDescription)) % 3 = 0
             THEN CeilFifth(inp.price)
             ELSE <<>>)

\* the same for prices of at most 14 digits before the point
ItemPointsExactUpTo14Digits ==
    out.done /\ out.valid /\ Len(split(strip(inp.price), ".")[1]) <= 14 =>
        out.points =
            (IF Len(strip(inp.shortDescription)) % 3 = 0
             THEN CeilFifth(inp.price)
             ELSE <<>>)

\* C7: Receipt(record) succeeds exactly when the retailer is non-empty and
\* neither starts nor ends with a whitespace character, and otherwise raises
\* ValidationError and produces no Receipt.
RetailerAcceptedIffTrimmed ==
    out.done =>
        /\ out.result.raised = "" <=>
               /\ inp # <<>>
               /\ inp[1] \notin Whitespace
               /\ inp[Len(inp)] \notin Whitespace
        /\ out.result.raised # "" =>
               out.result.raised = "ValidationError" /\ "self" \notin DOMAIN out.result

\* C8: when two threads have each completed add_receipt on distinct
\* receipts, both receipts are in the pool, under distinct keys.
ConcurrentAddsKeepBoth ==
    (/\ pc[1].at = "idle" /\ pc[2].at = "idle"
     /\ pc[1].obj # None /\ pc[2].obj # None
     /\ pc[1].obj # pc[2].obj) =>
        \E k1 \in DOMAIN pool, k2 \in DOMAIN pool :
            k1 # k2 /\ pool[k1] = pc[1].obj /\ pool[k2] = pc[2].obj

\* C9: an add_receipt called on a pool that leaves an identifier free
\* returns; when it returns the receipt is stored under an id that was no
\* key at the call, and the pool has exactly one more key.
AddInsertsFresh ==
    (pc[1].at = "insert" /\ pc'[1].at = "idle") =>
        /\ receipts'[pc[1].obj].id \notin pc[1].pre
        /\ DOMAIN pool' = pc[1].pre \cup {receipts'[pc[1].obj].id}
        /\ Cardinality(DOMAIN pool') = Cardinality(pc[1].pre) + 1
        /\ pool'[receipts'[pc[1].obj].id] = pc[1].obj
        /\ ret'.op = "add_receipt" /\ ret'.val = None

AddReceiptTerminates ==
    /\ (pc[1].at = "while" /\ pc[1].pre # Ids) ~> (pc[1].at = "idle")
    /\ [][AddInsertsFresh]_vars

\* an add_receipt whose receipt's id was a key at the call has returned
CollidingAddReturned ==
    /\ pc[1].at = "idle"
    /\ pc[1].obj # None
    /\ pc[1].first \in pc[1].pre
    /\ ret.op = "add_receipt"
    /\ dict_get(pool, receipts[pc[1].obj].id, None) = pc[1].obj

\* C10: every entry of the pool is stored under its Receipt's current id.
KeyEqualsId == \A k \in DOMAIN pool : receipts[pool[k]].id = k

====
